---- MODULE Spec2Model ----
(***************************************************************************)
(* The BVH and SBVH builders of src/BVHBuilder.cpp and                     *)
(* src/SBVHBuilder.cpp as a state machine.                                 *)
(*                                                                         *)
(* The recursion of build_bvh / build_sbvh is unfolded over an explicit    *)
(* call stack: one action enters a call (lines up to the first recursive   *)
(* call), one resumes the caller after its left child returned, one after  *)
(* its right child returned, and one runs the driver's epilogue.           *)
(*                                                                         *)
(* Geometry is exact integer arithmetic.  One model unit of length is the  *)
(* 0.001 that build_sbvh adds to the bin bounds; float rounding is not     *)
(* modelled.  Asserts are modelled as fatal.                               *)
(***************************************************************************)
EXTENDS Integers, Sequences, FiniteSets, TLC

\* ------------------------------------------------------------------ bounds

\* Largest number of primitives of an input scene.
MaxN == 4

\* Largest configured max_primitives_in_leaf.
MaxLeaf == 2

\* ------------------------------------------------------- program constants

INFINITY == 2147483647

\* Size of the node and index arrays of an SBVH, as a multiple of N.
SBVH_OVERALLOCATION == 2

\* Number of bins of the spatial split search.
SBVH_BIN_COUNT == 4

\* 1 / alpha, the constant of build_sbvh (alpha = 10e-5).
AlphaInv == 10000

Dims == 0 .. 2

\* ---------------------------------------------------------------- helpers

SetMin(S) == CHOOSE x \in S : \A y \in S : x <= y

SetMax(S) == CHOOSE x \in S : \A y \in S : x >= y

Min2(a, b) == IF a <= b THEN a ELSE b

Max2(a, b) == IF a >= b THEN a ELSE b

\* ------------------------------------------------------------ AABB algebra

Box(x0, x1, y0, y1, z0, z1) ==
    [min |-> [d \in Dims |-> CASE d = 0 -> x0 [] d = 1 -> y0 [] OTHER -> z0],
     max |-> [d \in Dims |-> CASE d = 0 -> x1 [] d = 1 -> y1 [] OTHER -> z1]]

\* The canonical empty box: min = +inf, max = -inf.
create_empty == [min |-> [d \in Dims |-> INFINITY], max |-> [d \in Dims |-> -INFINITY]]

is_valid(b) == \A d \in Dims : b.min[d] <= b.max[d]

surface_area(b) ==
    IF ~is_valid(b) THEN 0
    ELSE LET ex == b.max[0] - b.min[0]
             ey == b.max[1] - b.min[1]
             ez == b.max[2] - b.min[2]
         IN  2 * (ex * ey + ey * ez + ez * ex)

expand(a, b) ==
    [min |-> [d \in Dims |-> Min2(a.min[d], b.min[d])],
     max |-> [d \in Dims |-> Max2(a.max[d], b.max[d])]]

overlap(a, b) ==
    [min |-> [d \in Dims |-> Max2(a.min[d], b.min[d])],
     max |-> [d \in Dims |-> Min2(a.max[d], b.max[d])]]

\* The union of a set of boxes: expand folded from the empty box.
UnionBoxes(S) ==
    IF S = {} THEN create_empty
    ELSE [min |-> [d \in Dims |-> SetMin({b.min[d] : b \in S})],
          max |-> [d \in Dims |-> SetMax({b.max[d] : b \in S})]]

\* --------------------------------------------------------------- primitives

Tri(x0, x1, y0, y1, z0, z1) ==
    [aabb   |-> Box(x0, x1, y0, y1, z0, z1),
     center |-> [d \in Dims |-> CASE d = 0 -> (x0 + x1) \div 2
                                  [] d = 1 -> (y0 + y1) \div 2
                                  [] OTHER -> (z0 + z1) \div 2]]

\* The primitives scenes are made of: a long bar, a short bar at each of its
\* ends, a tall plate at each of its ends, and a box set apart along z.  A
\* center is the midpoint of the box, as for a triangle whose middle vertex
\* lies halfway along every axis.
Palette ==
    << Tri(0, 40, 0, 10, 0, 0),
       Tri(0, 18, 0, 10, 0, 0),
       Tri(22, 40, 0, 10, 0, 0),
       Tri(0, 18, 0, 40, 0, 0),
       Tri(22, 40, 0, 40, 0, 0),
       Tri(10, 30, 0, 10, 30, 40) >>

\* ------------------------------------------------------- partition kernels

\* BVHPartitions::calculate_bounds over ind[first .. last).
calculate_bounds(tris, ind, first, last) ==
    UnionBoxes({tris[ind[i]].aabb : i \in first .. last - 1})

\* SAH cost of splitting the range of axis d after its first k references.
ObjLeft(tris, indices, first, d, k) ==
    calculate_bounds(tris, indices[d], first, first + k)

ObjRight(tris, indices, first, count, d, k) ==
    calculate_bounds(tris, indices[d], first + k, first + count)

ObjCost(tris, indices, first, count, d, k) ==
    k * surface_area(ObjLeft(tris, indices, first, d, k))
    + (count - k) * surface_area(ObjRight(tris, indices, first, count, d, k))

\* The candidates of a search are ranked by cost, then axis, then position.
Cheapest(Cands) ==
    CHOOSE p \in Cands : \A q \in Cands :
        \/ p.cost < q.cost
        \/ p.cost = q.cost /\ p.dimension < q.dimension
        \/ p.cost = q.cost /\ p.dimension = q.dimension /\ p.index <= q.index

\* The object split search: the cheapest (axis, position), ties to the
\* earliest axis and then the smallest position; index -1 when the range has
\* no split position.
partition_object(tris, indices, first, count) ==
    IF count < 2
    THEN [index |-> -1, dimension |-> 0, cost |-> INFINITY,
          aabb_left |-> create_empty, aabb_right |-> create_empty]
    ELSE Cheapest({[index      |-> first + k,
                    dimension  |-> d,
                    cost       |-> ObjCost(tris, indices, first, count, d, k),
                    aabb_left  |-> ObjLeft(tris, indices, first, d, k),
                    aabb_right |-> ObjRight(tris, indices, first, count, d, k)] :
                   d \in Dims, k \in 1 .. count - 1})

\* BVHPartitions::partition_sah of the plain builder: the same search,
\* returning the position, the axis and the cost.
partition_sah(tris, indices, first, count) ==
    partition_object(tris, indices, first, count)

\* int(x): truncation toward zero of a / b, b > 0.
Trunc(a, b) == IF a >= 0 THEN a \div b ELSE -((-a) \div b)

\* The bin of coordinate x along axis d of a node: the node's bounds are
\* widened by 0.001 (one unit) on both sides and cut in SBVH_BIN_COUNT bins.
Bin(node_aabb, d, x) ==
    LET bounds_min == node_aabb.min[d] - 1
        bounds_max == node_aabb.max[d] + 1
    IN  Trunc(SBVH_BIN_COUNT * (x - bounds_min), bounds_max - bounds_min)

\* The plane between bins b - 1 and b, rounded down to the model's unit.
Plane(node_aabb, d, b) ==
    LET bounds_min == node_aabb.min[d] - 1
        bounds_max == node_aabb.max[d] + 1
    IN  bounds_min + (b * (bounds_max - bounds_min)) \div SBVH_BIN_COUNT

ChopBelow(box, d, p) == [box EXCEPT !.max[d] = Min2(box.max[d], p)]

ChopAbove(box, d, p) == [box EXCEPT !.min[d] = Max2(box.min[d], p)]

\* One candidate of the spatial split search: the plane b of axis d, over the
\* references at the positions pos of the axis's index array ind.
SpatialCand(tris, ind, pos, node_aabb, d, b) ==
    LET clip  == [i \in pos |-> overlap(tris[ind[i]].aabb, node_aabb)]
        p     == Plane(node_aabb, d, b)
        left  == {i \in pos : Bin(node_aabb, d, clip[i].min[d]) <  b}
        right == {i \in pos : Bin(node_aabb, d, clip[i].max[d]) >= b}
        bl    == UnionBoxes({ChopBelow(clip[i], d, p) : i \in left})
        br    == UnionBoxes({ChopAbove(clip[i], d, p) : i \in right})
    IN  [index |-> b, dimension |-> d,
         cost |-> surface_area(bl) * Cardinality(left)
                  + surface_area(br) * Cardinality(right),
         aabb_left |-> bl, aabb_right |-> br,
         count_left |-> Cardinality(left), count_right |-> Cardinality(right)]

\* The binned spatial split search: the cheapest (axis, plane), ties to the
\* earliest axis and then the smallest plane.
partition_spatial(tris, indices, first, count, node_aabb) ==
    Cheapest({SpatialCand(tris, indices[d], first .. first + count - 1, node_aabb, d, b) :
              d \in Dims, b \in 1 .. SBVH_BIN_COUNT - 1})

\* No spatial candidate: spatial_split_cost stays INFINITY.
NoSpatial ==
    [index |-> 0, dimension |-> 0, cost |-> INFINITY,
     aabb_left |-> create_empty, aabb_right |-> create_empty,
     count_left |-> 0, count_right |-> 0]

\* Stable filter of a sequence.
RECURSIVE SelectSeqIn(_, _)
SelectSeqIn(s, S) ==
    IF s = <<>> THEN <<>>
    ELSE IF Head(s) \in S THEN <<Head(s)>> \o SelectSeqIn(Tail(s), S)
         ELSE SelectSeqIn(Tail(s), S)

\* BVHPartitions::split_indices: in each axis the references at
\* [first, split_index) of the split axis come first, the others after, both
\* in the order they had.
split_indices(indices, first, count, split_dimension, split_index) ==
    LET leftset == {indices[split_dimension][i] : i \in first .. split_index - 1}
        all     == {indices[split_dimension][i] : i \in first .. first + count - 1}
        range(d) == [k \in 1 .. count |-> indices[d][first + k - 1]]
        new(d)   == SelectSeqIn(range(d), leftset)
                    \o SelectSeqIn(range(d), all \ leftset)
    IN  [d \in Dims |->
           [i \in DOMAIN indices[d] |->
              IF i >= first /\ i < first + count /\ i - first + 1 <= Len(new(d))
              THEN new(d)[i - first + 1] ELSE indices[d][i]]]

\* ------------------------------------------------- build_sbvh, object split

\* The tie-break scan of the object split: whether reference `index` is among
\* the references left of object_split_index whose center is on the split
\* plane, walking down from position j of the split axis's array as it is now.
RECURSIVE ObjScan(_, _, _, _)
ObjScan(c, ind, index, j) ==
    IF j >= c.first /\ c.tris[ind[c.dim][j]].center[c.dim] = c.split
    THEN IF ind[c.dim][j] = index THEN TRUE ELSE ObjScan(c, ind, index, j - 1)
    ELSE FALSE

\* The side chosen by the coordinate alone: a center on the split plane goes
\* right.
goes_left_below_split(c, ind, index) == c.tris[index].center[c.dim] < c.split

\* goes_left of the object split: left of the plane, or on it and found by the
\* scan.
ObjGoesLeft(c, ind, index) ==
    LET x == c.tris[index].center[c.dim]
    IN  IF x < c.split THEN TRUE
        ELSE IF x = c.split THEN ObjScan(c, ind, index, c.index - 1)
        ELSE FALSE

\* The loop over i of one dimension: children_left[dimension] is the range
\* itself, rewritten in place; children_right[dimension] is a side buffer.
RECURSIVE ObjLoop(_, _, _, _, _, _)
ObjLoop(c, ind, dimension, i, nl, right) ==
    IF i >= c.first + c.count THEN [ind |-> ind, n_left |-> nl, right |-> right]
    ELSE LET index == ind[dimension][i]
         IN  IF ObjGoesLeft(c, ind, index)
             THEN ObjLoop(c, [ind EXCEPT ![dimension][c.first + nl] = index],
                          dimension, i + 1, nl + 1, right)
             ELSE ObjLoop(c, ind, dimension, i + 1, nl, Append(right, index))

\* What a split hands to the recursion: the rewritten index arrays, the right
\* child's references per axis, the counts, the child boxes and the asserts.
SplitResult(r0, r1, r2, aabb_left, aabb_right, asserts) ==
    [indices    |-> r2.ind,
     right      |-> [d \in Dims |-> CASE d = 0 -> r0.right [] d = 1 -> r1.right
                                      [] OTHER -> r2.right],
     n_left     |-> r0.n_left,
     n_right    |-> Len(r0.right),
     aabb_left  |-> aabb_left,
     aabb_right |-> aabb_right,
     asserts    |-> asserts]

CountsAgree(r0, r1, r2) ==
    /\ r0.n_left = r1.n_left /\ r1.n_left = r2.n_left
    /\ Len(r0.right) = Len(r1.right) /\ Len(r1.right) = Len(r2.right)

ObjectSplit2(c, obj, r0, r1) ==
    SplitResult(r0, r1, ObjLoop(c, r1.ind, 2, c.first, 0, <<>>),
                obj.aabb_left, obj.aabb_right,
                /\ CountsAgree(r0, r1, ObjLoop(c, r1.ind, 2, c.first, 0, <<>>))
                /\ c.first + r0.n_left = obj.index
                /\ r0.n_left + Len(r0.right) = c.count)

ObjectSplit1(c, obj, r0) ==
    ObjectSplit2(c, obj, r0, ObjLoop(c, r0.ind, 1, c.first, 0, <<>>))

ObjectSplit0(c, indices, obj) ==
    ObjectSplit1(c, obj, ObjLoop(c, indices, 0, c.first, 0, <<>>))

\* The object split of a node: the three passes, then the asserts.
ObjectSplit(tris, indices, first, count, obj) ==
    ObjectSplit0([tris |-> tris, first |-> first, count |-> count,
                  dim |-> obj.dimension, index |-> obj.index,
                  split |-> tris[indices[obj.dimension][obj.index]]
                                .center[obj.dimension]],
                 indices, obj)

\* ------------------------------------------------ build_sbvh, spatial split

\* A straddler: the three costs decide whether it leaves one side.
SpUnsplit(st, index, taabb, rl1, rr1, a_l, a_r) ==
    LET c_split   == a_l * st.n_1 + a_r * st.n_2
        c_1       == surface_area(expand(st.L, taabb)) * st.n_1 + a_r * (st.n_2 - 1)
        c_2       == a_l * (st.n_1 - 1) + surface_area(expand(st.R, taabb)) * st.n_2
        dropleft  == IF c_1 < c_split THEN c_2 < c_1 ELSE c_2 < c_split
        dropright == c_1 < c_split /\ ~(c_2 < c_1)
    IN  [L     |-> IF dropright THEN expand(st.L, taabb) ELSE st.L,
         R     |-> IF dropleft  THEN expand(st.R, taabb) ELSE st.R,
         n_1   |-> IF dropleft  THEN st.n_1 - 1 ELSE st.n_1,
         n_2   |-> IF dropright THEN st.n_2 - 1 ELSE st.n_2,
         rej_l |-> IF dropleft  THEN rl1 + 1 ELSE rl1,
         rej_r |-> IF dropright THEN rr1 + 1 ELSE rr1,
         going_left  |-> [st.going_left  EXCEPT ![index] = ~dropleft],
         going_right |-> [st.going_right EXCEPT ![index] = ~dropright],
         asserts |-> st.asserts]

\* A reference after the bins and the validity tests said where it goes.
SpRoute(st, index, taabb, gl0, gr0, valid_l, valid_r) ==
    LET rl1 == st.rej_l + (IF gl0 /\ ~valid_l THEN 1 ELSE 0)
        rr1 == st.rej_r + (IF gr0 /\ ~valid_r THEN 1 ELSE 0)
    IN  IF gl0 /\ valid_l /\ gr0 /\ valid_r
        THEN SpUnsplit(st, index, taabb, rl1, rr1,
                       surface_area(st.L), surface_area(st.R))
        ELSE [st EXCEPT !.rej_l = rl1, !.rej_r = rr1,
                        !.going_left[index]  = gl0 /\ valid_l,
                        !.going_right[index] = gr0 /\ valid_r,
                        !.asserts = st.asserts /\ ((gl0 /\ valid_l) \/ (gr0 /\ valid_r))]

SpClip(c, st, index, taabb) ==
    SpRoute(st, index, taabb,
            Bin(c.node_aabb, c.dim, taabb.min[c.dim]) <  c.index,
            Bin(c.node_aabb, c.dim, taabb.max[c.dim]) >= c.index,
            is_valid(overlap(taabb, st.L)),
            is_valid(overlap(taabb, st.R)))

\* One reference of the classification loop: bins, validity, unsplitting.
SpClassify(c, st, index) ==
    SpClip(c, st, index, overlap(c.tris[index].aabb, c.node_aabb))

RECURSIVE SpClassifyLoop(_, _, _, _)
SpClassifyLoop(c, ind, i, st) ==
    IF i >= c.first + c.count THEN st
    ELSE SpClassifyLoop(c, ind, i + 1, SpClassify(c, st, ind[c.dim][i]))

\* The loop over i of one dimension, reading the two lookup tables.
RECURSIVE SpLoop(_, _, _, _, _, _, _)
SpLoop(c, st, ind, dimension, i, nl, right) ==
    IF i >= c.first + c.count THEN [ind |-> ind, n_left |-> nl, right |-> right]
    ELSE SpLoop(c, st,
                IF st.going_left[ind[dimension][i]]
                THEN [ind EXCEPT ![dimension][c.first + nl] = ind[dimension][i]]
                ELSE ind,
                dimension, i + 1,
                IF st.going_left[ind[dimension][i]] THEN nl + 1 ELSE nl,
                IF st.going_right[ind[dimension][i]]
                THEN Append(right, ind[dimension][i]) ELSE right)

SpatialSplit3(c, sp, st, r0, r1, r2) ==
    SplitResult(r0, r1, r2, st.L, st.R,
                /\ st.asserts
                /\ CountsAgree(r0, r1, r2)
                /\ r0.n_left      = sp.count_left  - st.rej_l
                /\ Len(r0.right)  = sp.count_right - st.rej_r
                /\ r0.n_left > 0 /\ r0.n_left < c.count
                /\ Len(r0.right) > 0 /\ Len(r0.right) < c.count
                /\ r0.n_left + Len(r0.right) >= c.count)

SpatialSplit2(c, sp, st, r0, r1) ==
    SpatialSplit3(c, sp, st, r0, r1, SpLoop(c, st, r1.ind, 2, c.first, 0, <<>>))

SpatialSplit1(c, sp, st, r0) ==
    SpatialSplit2(c, sp, st, r0, SpLoop(c, st, r0.ind, 1, c.first, 0, <<>>))

SpatialSplit0(c, indices, sp, st) ==
    SpatialSplit1(c, sp, st, SpLoop(c, st, indices, 0, c.first, 0, <<>>))

SpatialStart(tris, sp) ==
    [L |-> sp.aabb_left, R |-> sp.aabb_right,
     n_1 |-> sp.count_left, n_2 |-> sp.count_right,
     rej_l |-> 0, rej_r |-> 0,
     going_left  |-> [t \in DOMAIN tris |-> FALSE],
     going_right |-> [t \in DOMAIN tris |-> FALSE],
     asserts |-> TRUE]

SpatialCtx(tris, first, count, node_aabb, sp) ==
    [tris |-> tris, first |-> first, count |-> count,
     node_aabb |-> node_aabb, dim |-> sp.dimension, index |-> sp.index]

\* The spatial split of a node: classification, the three passes, the asserts.
SpatialSplit(tris, indices, first, count, node_aabb, sp) ==
    SpatialSplit0(SpatialCtx(tris, first, count, node_aabb, sp), indices, sp,
                  SpClassifyLoop(SpatialCtx(tris, first, count, node_aabb, sp),
                                 indices, first, SpatialStart(tris, sp)))

\* -------------------------------------------------------------- the state

VARIABLES
    triangles,               \* the input primitives, 0 .. triangle_count - 1
    triangle_count,
    max_primitives_in_leaf,  \* SBVHBuilder's configuration
    alpha_inv,               \* 1 / alpha of build_sbvh
    sorted,                  \* what std::sort leaves in the three index arrays
    builder,                 \* "bvh" or "sbvh": the build in progress
    pc,                      \* "init", "run", "done", "aborted", "crashed"
    nodes,                   \* the node array, and what lies behind its end
    node_index,
    indices,                 \* indices[d]: the index array of axis d
    stack,                   \* the calls of build_bvh / build_sbvh in progress
    ret,                     \* the value the last finished build_sbvh returned
    root_area,               \* surface area of the root box (1 / inv_root_surface_area)
    node_count,
    index_count,
    oob,                     \* kinds of slots written behind the end of an array
    split_log,               \* per interior node: the split performed there
    saved                    \* the finished plain build, kept for comparison

vars == << triangles, triangle_count, max_primitives_in_leaf, alpha_inv, sorted,
           builder, pc, nodes, node_index, indices, stack, ret, root_area,
           node_count, index_count, oob, split_log, saved >>

input == << triangles, triangle_count, max_primitives_in_leaf, alpha_inv, sorted >>

\* A node as the code leaves it.  count is the 32-bit field: hi its top two
\* bits ((axis + 1) << 30 on an interior node), lo its low 30 bits.  A field
\* the code has not written is -1.
Unwritten ==
    [aabb |-> create_empty, left |-> -1, first |-> -1, count |-> [hi |-> 0, lo |-> -1]]

LeafCount(n)     == [hi |-> 0, lo |-> n]

InteriorCount(d) == [hi |-> d + 1, lo |-> 0]

is_leaf(n)     == n.count.hi = 0 /\ n.count.lo >= 0

is_interior(n) == n.count.hi > 0

\* A write to slot i of an array: the slot may lie behind the array's end.
Store(f, i, v) == [j \in (DOMAIN f) \cup {i} |-> IF j = i THEN v ELSE f[j]]

NodeCapacity == IF builder = "bvh" THEN 2 * triangle_count
                ELSE SBVH_OVERALLOCATION * triangle_count

IndexCapacity == IF builder = "bvh" THEN triangle_count
                 ELSE SBVH_OVERALLOCATION * triangle_count

Frame(node, first, count) ==
    [node |-> node, first |-> first, count |-> count, phase |-> "enter",
     n_left |-> 0, n_right |-> 0, right |-> [d \in Dims |-> <<>>],
     leaves_left |-> 0]

Top == stack[Len(stack)]

Pop == SubSeq(stack, 1, Len(stack) - 1)

ReplaceTop(f) == [stack EXCEPT ![Len(stack)] = f]

\* What a write behind an array's end may do: go unnoticed, or crash.
AfterWrite(kinds) == IF kinds = {} THEN {"run"} ELSE {"run", "crashed"}

\* ------------------------------------------------------------------- Init

\* std::sort of one axis: by center, references with equal centers in
\* ascending or in descending order of their number.
RECURSIVE std_sort(_, _, _, _)
std_sort(tris, S, d, rev) ==
    IF S = {} THEN <<>>
    ELSE LET Key(t) == IF rev THEN -t ELSE t
             m == CHOOSE t \in S : \A u \in S :
                     \/ tris[t].center[d] < tris[u].center[d]
                     \/ tris[t].center[d] = tris[u].center[d] /\ Key(t) <= Key(u)
         IN  <<m>> \o std_sort(tris, S \ {m}, d, rev)

SortedArray(tris, n, d, rev) ==
    LET s == std_sort(tris, 0 .. n - 1, d, rev)
    IN  [i \in 0 .. n - 1 |-> s[i + 1]]

Scenes(n) ==
    {sel \in [0 .. n - 1 -> 1 .. Len(Palette)] :
        \A i \in 0 .. n - 2 : sel[i] <= sel[i + 1]}

InitWith(ainv) ==
    /\ triangle_count \in 0 .. MaxN
    /\ \E sel \in Scenes(triangle_count) :
          triangles = [i \in 0 .. triangle_count - 1 |-> Palette[sel[i]]]
    /\ max_primitives_in_leaf \in 1 .. MaxLeaf
    /\ alpha_inv = ainv
    /\ \E rev \in [Dims -> BOOLEAN] :
          sorted = [d \in Dims |-> SortedArray(triangles, triangle_count, d, rev[d])]
    /\ builder = "bvh"
    /\ pc = "init"
    /\ nodes = << >>
    /\ node_index = 0
    /\ indices = [d \in Dims |-> << >>]
    /\ stack = << >>
    /\ ret = 0
    /\ root_area = 0
    /\ node_count = 0
    /\ index_count = 0
    /\ oob = {}
    /\ split_log = << >>
    /\ saved = [pc |-> "none"]

Init == InitWith(AlphaInv)

\* ---------------------------------------------------------- plain builder

NodeAt(i) == IF i \in DOMAIN nodes THEN nodes[i] ELSE Unwritten

NodeOob(S) == IF \E i \in S : i >= NodeCapacity THEN {"node"} ELSE {}

\* BVHBuilders::build_bvh up to the call of the recursion.
BVHBuilders_build_bvh_begin ==
    /\ pc = "init" /\ builder = "bvh"
    /\ nodes' = [i \in 0 .. 2 * triangle_count - 1 |-> Unwritten]
    /\ indices' = sorted
    /\ node_index' = 2
    /\ stack' = << Frame(0, 0, triangle_count) >>
    /\ pc' = "run"
    /\ UNCHANGED << input, builder, ret, root_area, node_count, index_count,
                    oob, split_log, saved >>

\* The size test with the bound 1: ranges of one and two references go on to
\* reserve child slots.
terminate_recursion_below_one(count) == count < 1

\* The counter left alone until the node is known to be split.
node_index_unreserved(ni) == ni

\* node.left = node_index; node_index += 2, ahead of the SAH termination
\* test: the counter as the test's leaf leaves it.
node_index_at_sah_test(ni) == ni + 2

\* "Leaf Node, terminate recursion": the size test of build_bvh.
terminate_recursion(count) == count < 3

\* build_bvh from its entry to its first recursive call or its return.
build_bvh_enter ==
    /\ pc = "run" /\ builder = "bvh" /\ stack # << >> /\ Top.phase = "enter"
    /\ LET f      == Top
           aabb   == calculate_bounds(triangles, indices[0], f.first, f.first + f.count)
           sah    == partition_sah(triangles, indices, f.first, f.count)
           parent_cost == surface_area(aabb) * f.count
           n_left  == sah.index - f.first
           n_right == f.first + f.count - sah.index
           wrote  == NodeOob({f.node})
       IN  /\ oob' = oob \cup wrote
           /\ pc' \in AfterWrite(wrote)
           /\ IF terminate_recursion(f.count)
              THEN /\ nodes' = Store(nodes, f.node,
                          [NodeAt(f.node) EXCEPT !.aabb = aabb, !.first = f.first,
                                                 !.count = LeafCount(f.count)])
                   /\ stack' = Pop
                   /\ UNCHANGED << node_index, indices, split_log >>
              ELSE IF sah.cost >= parent_cost
              THEN /\ nodes' = Store(nodes, f.node,
                          [NodeAt(f.node) EXCEPT !.aabb = aabb, !.left = node_index,
                                                 !.first = f.first,
                                                 !.count = LeafCount(f.count)])
                   /\ node_index' = node_index_at_sah_test(node_index)
                   /\ stack' = Pop
                   /\ UNCHANGED << indices, split_log >>
              ELSE /\ nodes' = Store(nodes, f.node,
                          [NodeAt(f.node) EXCEPT !.aabb = aabb, !.left = node_index,
                                                 !.count = InteriorCount(sah.dimension)])
                   /\ node_index' = node_index + 2
                   /\ indices' = split_indices(indices, f.first, f.count,
                                               sah.dimension, sah.index)
                   /\ split_log' = Store(split_log, f.node,
                          [kind |-> "object", dimension |-> sah.dimension,
                           cost |-> sah.cost, parent_cost |-> parent_cost,
                           count |-> f.count, n_left |-> n_left, n_right |-> n_right])
                   /\ stack' = Append(
                          ReplaceTop([f EXCEPT !.phase = "left", !.n_left = n_left,
                                               !.n_right = n_right]),
                          Frame(node_index, f.first, n_left))
    /\ UNCHANGED << input, builder, ret, root_area, node_count, index_count, saved >>

\* build_bvh after its left child returned: the call of the right child.
build_bvh_after_left ==
    /\ pc = "run" /\ builder = "bvh" /\ stack # << >> /\ Top.phase = "left"
    /\ LET f == Top
       IN  stack' = Append(ReplaceTop([f EXCEPT !.phase = "right"]),
                           Frame(nodes[f.node].left + 1, f.first + f.n_left, f.n_right))
    /\ UNCHANGED << input, builder, pc, nodes, node_index, indices, ret, root_area,
                    node_count, index_count, oob, split_log, saved >>

\* build_bvh after its right child returned.
build_bvh_after_right ==
    /\ pc = "run" /\ builder = "bvh" /\ stack # << >> /\ Top.phase = "right"
    /\ stack' = Pop
    /\ UNCHANGED << input, builder, pc, nodes, node_index, indices, ret, root_area,
                    node_count, index_count, oob, split_log, saved >>

\* BVHBuilders::build_bvh after the recursion returned.
BVHBuilders_build_bvh_end ==
    /\ pc = "run" /\ builder = "bvh" /\ stack = << >>
    /\ IF node_index <= 2 * triangle_count
       THEN /\ node_count' = node_index
            /\ index_count' = triangle_count
            /\ pc' = "done"
       ELSE /\ pc' = "aborted"
            /\ UNCHANGED << node_count, index_count >>
    /\ UNCHANGED << input, builder, nodes, node_index, indices, stack, ret,
                    root_area, oob, split_log, saved >>

\* ------------------------------------------------------------ SBVH builder

\* SBVHBuilder::build up to the call of the recursion.
SBVHBuilder_build_begin ==
    /\ pc = "init" /\ builder = "sbvh"
    /\ LET cap   == SBVH_OVERALLOCATION * triangle_count
           root_aabb == calculate_bounds(triangles, sorted[0], 0, triangle_count)
           wrote == NodeOob({0})
       IN  /\ indices' = [d \in Dims |-> [i \in 0 .. cap - 1 |->
                             IF i < triangle_count THEN sorted[d][i] ELSE -1]]
           /\ nodes' = Store([i \in 0 .. cap - 1 |-> Unwritten], 0,
                             [Unwritten EXCEPT !.aabb = root_aabb])
           /\ root_area' = surface_area(root_aabb)
           /\ oob' = oob \cup wrote
           /\ pc' \in AfterWrite(wrote)
    /\ node_index' = 2
    /\ stack' = << Frame(0, 0, triangle_count) >>
    /\ UNCHANGED << input, builder, ret, node_count, index_count, split_log, saved >>

\* The spatial candidate sought whenever the children overlap at all.
consider_spatial_on_any_overlap(lamba) == lamba > 0

\* The leaf test admitting one reference more than configured.
leaf_allowed_one_more(count) == count <= max_primitives_in_leaf + 1

\* The termination condition with strict comparisons.
sah_termination_strict(parent_cost, object_split_cost, spatial_split_cost) ==
    parent_cost < object_split_cost /\ parent_cost < spatial_split_cost

\* The counter advanced by three.
reserve_children_by_three(ni) == ni + 3

\* ratio > alpha, with ratio = lamba * inv_root_surface_area.
consider_spatial(lamba) == lamba * alpha_inv > root_area

\* A node this small may become a leaf.
leaf_allowed(count) == count <= max_primitives_in_leaf

\* The SAH termination condition of build_sbvh.
sah_termination(parent_cost, object_split_cost, spatial_split_cost) ==
    parent_cost <= object_split_cost /\ parent_cost <= spatial_split_cost

\* node.left = node_index; node_index += 2: the counter after the two slots.
reserve_children(ni) == ni + 2

\* The split of a node, once chosen and performed: it ends the build when one
\* of its asserts fails.
Decided(count, obj, sp, parent_cost, r) ==
    [kind  |-> IF r.asserts THEN "split" ELSE "abort",
     split |-> r,
     tag   |-> obj.dimension,
     log   |-> [kind |-> IF obj.cost <= sp.cost THEN "object" ELSE "spatial",
                dimension |-> IF obj.cost <= sp.cost
                              THEN obj.dimension ELSE sp.dimension,
                cost |-> Min2(obj.cost, sp.cost),
                parent_cost |-> parent_cost,
                count |-> count,
                n_left |-> r.n_left, n_right |-> r.n_right]]

\* build_sbvh once both candidates are known: the leaf test, then the split.
DecideSplit(node_aabb, first, count, obj, sp, parent_cost) ==
    IF /\ leaf_allowed(count)
       /\ sah_termination(parent_cost, obj.cost, sp.cost)
    THEN [kind |-> "leaf"]
    ELSE IF obj.cost = INFINITY /\ sp.cost = INFINITY THEN [kind |-> "abort"]
    ELSE Decided(count, obj, sp, parent_cost,
                 IF obj.cost <= sp.cost
                 THEN ObjectSplit(triangles, indices, first, count, obj)
                 ELSE SpatialSplit(triangles, indices, first, count, node_aabb, sp))

\* build_sbvh once the overlap of the object split's children is known:
\* ratio = lamba * inv_root_surface_area, the assert on it, and the spatial
\* candidate when ratio > alpha.
DecideSpatial(node_aabb, first, count, obj, lamba) ==
    IF ~(root_area > 0 /\ lamba <= root_area) THEN [kind |-> "abort"]
    ELSE DecideSplit(node_aabb, first, count, obj,
                     IF consider_spatial(lamba)
                     THEN partition_spatial(triangles, indices, first, count, node_aabb)
                     ELSE NoSpatial,
                     surface_area(node_aabb) * count)

DecideObject(node_aabb, first, count, obj) ==
    IF obj.index = -1 THEN [kind |-> "abort"]
    ELSE DecideSpatial(node_aabb, first, count, obj,
                       IF is_valid(overlap(obj.aabb_left, obj.aabb_right))
                       THEN surface_area(overlap(obj.aabb_left, obj.aabb_right))
                       ELSE 0)

\* What a call of build_sbvh decides before it recurses: a leaf, an abort, or
\* a split with the rewritten index arrays and the right child's references.
build_sbvh_decide(node_aabb, first, count) ==
    IF count = 1 THEN [kind |-> "leaf"]
    ELSE DecideObject(node_aabb, first, count,
                      partition_object(triangles, indices, first, count))

\* The writes of a call of build_sbvh that decided r.
build_sbvh_apply(f, r) ==
    CASE r.kind = "leaf" ->
           /\ nodes' = Store(nodes, f.node,
                  [NodeAt(f.node) EXCEPT !.first = f.first,
                                         !.count = LeafCount(f.count)])
           /\ ret' = f.count
           /\ stack' = Pop
           /\ oob' = oob \cup NodeOob({f.node})
           /\ pc' \in AfterWrite(NodeOob({f.node}))
           /\ UNCHANGED << node_index, indices, split_log >>
      [] r.kind = "abort" ->
           /\ pc' = "aborted"
           /\ UNCHANGED << nodes, ret, stack, oob, node_index, indices, split_log >>
      [] OTHER ->
           /\ nodes' =
                Store(Store(Store(nodes, f.node,
                                  [NodeAt(f.node) EXCEPT !.left = node_index,
                                                         !.count = InteriorCount(r.tag)]),
                            node_index,
                            [Unwritten EXCEPT !.aabb = r.split.aabb_left]),
                      node_index + 1,
                      [Unwritten EXCEPT !.aabb = r.split.aabb_right])
           /\ node_index' = reserve_children(node_index)
           /\ indices' = r.split.indices
           /\ split_log' = Store(split_log, f.node, r.log)
           /\ stack' = Append(
                  ReplaceTop([f EXCEPT !.phase = "left",
                                       !.n_left = r.split.n_left,
                                       !.n_right = r.split.n_right,
                                       !.right = r.split.right]),
                  Frame(node_index, f.first, r.split.n_left))
           /\ oob' = oob \cup NodeOob({f.node, node_index, node_index + 1})
           /\ pc' \in AfterWrite(NodeOob({f.node, node_index, node_index + 1}))
           /\ UNCHANGED ret

\* Whether the range of a call holds a reference slot nothing has written.
reads_unwritten(first, count) ==
    \E d \in Dims : \E p \in first .. first + count - 1 :
        p \notin DOMAIN indices[d] \/ indices[d][p] = -1

\* build_sbvh from its entry to its first recursive call or its return.  A
\* call whose range holds an unwritten slot indexes the triangles with it:
\* the process dies, by a fault or by one of the asserts.
build_sbvh_enter ==
    /\ pc = "run" /\ builder = "sbvh" /\ stack # << >> /\ Top.phase = "enter"
    /\ IF Top.count > 1 /\ reads_unwritten(Top.first, Top.count)
       THEN /\ pc' \in {"crashed", "aborted"}
            /\ oob' = oob \cup {"read"}
            /\ UNCHANGED << nodes, ret, stack, node_index, indices, split_log >>
       ELSE build_sbvh_apply(Top, build_sbvh_decide(NodeAt(Top.node).aabb,
                                                    Top.first, Top.count))
    /\ UNCHANGED << input, builder, root_area, node_count, index_count, saved >>

\* The copy landing one slot early.
memcpy_one_early(arr, base, buf) ==
    [j \in (DOMAIN arr) \cup (base - 1 .. base + Len(buf) - 2) |->
        IF j >= base - 1 /\ j < base - 1 + Len(buf) THEN buf[j - base + 2] ELSE arr[j]]

\* memcpy(arr + base, buf, Len(buf) * sizeof(int))
memcpy(arr, base, buf) ==
    [j \in (DOMAIN arr) \cup (base .. base + Len(buf) - 1) |->
        IF j >= base /\ j < base + Len(buf) THEN buf[j - base + 1] ELSE arr[j]]

\* The three copies all taking the buffer of axis 0.
copy_right_from_x(ind, base, right) ==
    [d \in Dims |-> memcpy(ind[d], base, right[0])]

\* The three memcpy calls that place the right child's references.
copy_right(ind, base, right) == [d \in Dims |-> memcpy(ind[d], base, right[d])]

\* build_sbvh after its left child returned: the right child's references are
\* copied behind what the left subtree emitted, then the right child is called.
build_sbvh_after_left ==
    /\ pc = "run" /\ builder = "sbvh" /\ stack # << >> /\ Top.phase = "left"
    /\ LET f == Top
           num_leaves_left == ret
           base  == f.first + num_leaves_left
           wrote == IF f.n_right > 0 /\ base + f.n_right > IndexCapacity
                    THEN {"ref"} ELSE {}
       IN  /\ indices' = copy_right(indices, base, f.right)
           /\ stack' = Append(
                  ReplaceTop([f EXCEPT !.phase = "right",
                                       !.leaves_left = num_leaves_left]),
                  Frame(nodes[f.node].left + 1, base, f.n_right))
           /\ oob' = oob \cup wrote
           /\ pc' \in AfterWrite(wrote)
    /\ UNCHANGED << input, builder, nodes, node_index, ret, root_area, node_count,
                    index_count, split_log, saved >>

\* The return value without the left subtree's share.
num_leaves_right_only(num_leaves_left, num_leaves_right) == num_leaves_right

\* return num_leaves_left + num_leaves_right
num_leaves(num_leaves_left, num_leaves_right) == num_leaves_left + num_leaves_right

\* build_sbvh after its right child returned: the side buffers are freed and
\* the number of references of the subtree is returned.
build_sbvh_after_right ==
    /\ pc = "run" /\ builder = "sbvh" /\ stack # << >> /\ Top.phase = "right"
    /\ ret' = num_leaves(Top.leaves_left, ret)
    /\ stack' = Pop
    /\ UNCHANGED << input, builder, pc, nodes, node_index, indices, root_area,
                    node_count, index_count, oob, split_log, saved >>

\* SBVHBuilder::build after the recursion returned.
SBVHBuilder_build_end ==
    /\ pc = "run" /\ builder = "sbvh" /\ stack = << >>
    /\ index_count' = ret
    /\ IF node_index > SBVH_OVERALLOCATION * triangle_count
       THEN /\ pc' = "aborted"
            /\ UNCHANGED node_count
       ELSE /\ node_count' = node_index
            /\ pc' = "done"
    /\ UNCHANGED << input, builder, nodes, node_index, indices, stack, ret,
                    root_area, oob, split_log, saved >>

\* The same scene is then given to the SBVH builder.
NextBuild ==
    /\ builder = "bvh" /\ pc \in {"done", "aborted", "crashed"}
    /\ saved' = [pc |-> pc, nodes |-> nodes, node_count |-> node_count,
                 index_count |-> index_count, indices |-> indices[0], oob |-> oob,
                 split_log |-> split_log]
    /\ builder' = "sbvh"
    /\ pc' = "init"
    /\ nodes' = << >>
    /\ node_index' = 0
    /\ indices' = [d \in Dims |-> << >>]
    /\ stack' = << >>
    /\ ret' = 0
    /\ node_count' = 0
    /\ index_count' = 0
    /\ oob' = {}
    /\ split_log' = << >>
    /\ UNCHANGED << input, root_area >>

Next ==
    \/ BVHBuilders_build_bvh_begin
    \/ build_bvh_enter
    \/ build_bvh_after_left
    \/ build_bvh_after_right
    \/ BVHBuilders_build_bvh_end
    \/ SBVHBuilder_build_begin
    \/ build_sbvh_enter
    \/ build_sbvh_after_left
    \/ build_sbvh_after_right
    \/ SBVHBuilder_build_end
    \/ NextBuild

Spec == Init /\ [][Next]_vars

\* The builders with alpha = 1.0: no overlap ratio exceeds it.
SpecAlphaOne == InitWith(1) /\ [][Next]_vars

\* ------------------------------------------------------ the tree of a build

NodeIn(ns, i) == IF i \in DOMAIN ns THEN ns[i] ELSE Unwritten

\* The node indices of the subtree rooted at i: i and all its descendants.
RECURSIVE subtree(_, _)
subtree(ns, i) ==
    IF is_interior(NodeIn(ns, i))
    THEN {i} \cup subtree(ns, ns[i].left) \cup subtree(ns, ns[i].left + 1)
    ELSE {i}

leaves(ns, i) == {j \in subtree(ns, i) : is_leaf(NodeIn(ns, j))}

interiors(ns, i) == {j \in subtree(ns, i) : is_interior(NodeIn(ns, j))}

\* The reference slots a leaf owns.
slice(n) == n.first .. n.first + n.count.lo - 1

RECURSIVE SumCounts(_, _)
SumCounts(ns, S) ==
    IF S = {} THEN 0
    ELSE LET j == CHOOSE x \in S : TRUE
         IN  ns[j].count.lo + SumCounts(ns, S \ {j})

\* The leaves below node i own pairwise disjoint slices that together are
\* exactly [first, first + k).
Occupies(ns, i, first, k) ==
    /\ \A a, b \in leaves(ns, i) : a # b => slice(ns[a]) \cap slice(ns[b]) = {}
    /\ UNION {slice(ns[a]) : a \in leaves(ns, i)} = first .. first + k - 1
    /\ SumCounts(ns, leaves(ns, i)) = k

Contiguous(S) == S = SetMin(S) .. SetMax(S)

Returned(phase) ==
    builder = "sbvh" /\ pc = "run" /\ stack # << >> /\ Top.phase = phase

\* ------------------------------------------------------------------ claims

\* C1: after a successful build the leaves' slices are pairwise disjoint and
\* cover exactly [0, index_count), the leaf counts sum to index_count,
\* index_count = N for the plain BVH and >= N for the SBVH; and every call of
\* build_sbvh returns the number of slots its subtree's leaves occupy from its
\* first on, so that the right child starts where the left subtree ends.
C1_LeafSlicesPartition ==
    /\ pc = "done" =>
          /\ Occupies(nodes, 0, 0, index_count)
          /\ builder = "bvh"  => index_count = triangle_count
          /\ builder = "sbvh" => index_count >= triangle_count
    /\ Returned("left") =>
          Occupies(nodes, nodes[Top.node].left, Top.first, ret)
    /\ Returned("right") =>
          Occupies(nodes, nodes[Top.node].left + 1, Top.first + Top.leaves_left, ret)
    /\ (builder = "sbvh" /\ pc = "run" /\ stack = << >>) =>
          Occupies(nodes, 0, 0, ret)

\* An SBVH came out in which the left subtree of some node emitted more
\* references than the node handed it, so that its right sibling starts
\* behind first + n_left.
C1_Witness ==
    /\ pc = "done" /\ builder = "sbvh"
    /\ index_count > triangle_count
    /\ \E i \in DOMAIN split_log :
          SumCounts(nodes, leaves(nodes, nodes[i].left)) > split_log[i].n_left

\* C2: after a successful build every primitive 0 .. N-1 is referenced from
\* the slice of some leaf, in each axis's array.
C2_EveryPrimitiveReferenced ==
    pc = "done" =>
        \A t \in 0 .. triangle_count - 1 : \A d \in Dims :
            \E j \in leaves(nodes, 0) : \E p \in slice(nodes[j]) :
                p \in DOMAIN indices[d] /\ indices[d][p] = t

\* An SBVH came out of a build that performed a spatial split.
C2_Witness ==
    /\ pc = "done" /\ builder = "sbvh"
    /\ \E i \in DOMAIN split_log : split_log[i].kind = "spatial"

\* C3 as stated: for every interior node i, left_child > i and the subtree
\* rooted at i is a contiguous slice of the node array.
C3_SubtreeContiguous ==
    pc = "done" =>
        \A i \in interiors(nodes, 0) :
            /\ nodes[i].left > i
            /\ Contiguous(subtree(nodes, i))

\* C3, amended: for every interior node i, left_child > i and every descendant
\* of i has an index >= left_child; in an SBVH the descendants of i, without i
\* itself, are a contiguous slice that starts at left_child.
C3_DescendantsBehind ==
    pc \in {"run", "done"} =>
        \A i \in interiors(nodes, 0) :
            /\ nodes[i].left > i
            /\ \A j \in subtree(nodes, i) \ {i} : j >= nodes[i].left
            /\ builder = "sbvh" =>
                  /\ Contiguous(subtree(nodes, i) \ {i})
                  /\ SetMin(subtree(nodes, i) \ {i}) = nodes[i].left

\* A finished tree two levels deep: an interior node below the root.
C3_Witness ==
    /\ pc = "done"
    /\ \E i \in interiors(nodes, 0) : i # 0

\* C4: for N >= 1 the plain build never fails, never writes a node slot at
\* index >= 2N, and finishes with node_count <= 2N.
C4_PlainNodeBound ==
    (builder = "bvh" /\ triangle_count >= 1) =>
        /\ pc \notin {"aborted", "crashed"}
        /\ oob = {}
        /\ \A i \in DOMAIN nodes : i < 2 * triangle_count
        /\ node_index <= 2 * triangle_count
        /\ pc = "done" => node_count = node_index

\* A plain build of a split root finished at the largest node count.
C4_Witness ==
    /\ builder = "bvh" /\ pc = "done"
    /\ triangle_count >= 3
    /\ is_interior(nodes[0])
    /\ node_count = 2 * triangle_count - 2

\* C5 as stated: N = 0 gives an empty tree and N = 1 a single leaf at node 0
\* with first 0, count 1 and index_count 1, without a fatal error, in both
\* builders.
C5_DegenerateSizes ==
    /\ triangle_count = 0 =>
          /\ pc \notin {"aborted", "crashed"}
          /\ pc = "done" =>
                /\ index_count = 0
                /\ \/ node_count = 0
                   \/ is_leaf(NodeAt(0)) /\ NodeAt(0).count.lo = 0
    /\ triangle_count = 1 =>
          /\ pc \notin {"aborted", "crashed"}
          /\ pc = "done" =>
                /\ is_leaf(nodes[0])
                /\ nodes[0].first = 0 /\ nodes[0].count.lo = 1
                /\ index_count = 1

\* Two trees of the same shape: interior where the other is, with the same
\* axis tag, and leaves with the same slice.
RECURSIVE same_tree(_, _, _, _)
same_tree(a, i, b, j) ==
    IF is_interior(NodeIn(a, i))
    THEN /\ is_interior(NodeIn(b, j))
         /\ a[i].count.hi = b[j].count.hi
         /\ same_tree(a, a[i].left, b, b[j].left)
         /\ same_tree(a, a[i].left + 1, b, b[j].left + 1)
    ELSE /\ is_leaf(NodeIn(b, j))
         /\ NodeIn(a, i).first = NodeIn(b, j).first
         /\ NodeIn(a, i).count.lo = NodeIn(b, j).count.lo

BothDone == builder = "sbvh" /\ pc = "done" /\ saved.pc = "done"

C7_SplitCheaperThanLeaf ==
    \A i \in DOMAIN split_log : split_log[i].cost < split_log[i].parent_cost

\* C7, amended: the cost of the split performed is strictly less than the
\* leaf cost at every interior node of the plain builder, and at every
\* interior node of the SBVH builder whose count <= max_primitives_in_leaf; a
\* node of the SBVH with more references is split whatever the costs.
C7_SplitCheaperWhereLeafAllowed ==
    \A i \in DOMAIN split_log :
        (builder = "bvh" \/ split_log[i].count <= max_primitives_in_leaf) =>
            split_log[i].cost < split_log[i].parent_cost

\* An SBVH split a node it was allowed to make a leaf.
C7_Witness ==
    /\ builder = "sbvh" /\ pc = "done"
    /\ \E i \in DOMAIN split_log : split_log[i].count <= max_primitives_in_leaf

\* C8: in a finished SBVH every leaf has 1 <= count <= max_primitives_in_leaf.
C8_LeafSizes ==
    (builder = "sbvh" /\ pc = "done") =>
        \A j \in leaves(nodes, 0) :
            nodes[j].count.lo >= 1 /\ nodes[j].count.lo <= max_primitives_in_leaf

\* A finished SBVH with a leaf of more than one reference beside other leaves.
C8_Witness ==
    /\ builder = "sbvh" /\ pc = "done"
    /\ Cardinality(leaves(nodes, 0)) >= 2
    /\ \E j \in leaves(nodes, 0) : nodes[j].count.lo = max_primitives_in_leaf
                                   /\ nodes[j].count.lo > 1

\* C9 as stated: an SBVH build that would exceed the over-allocation bound
\* aborts before a node slot or a reference slot beyond the bound is written.
C9_AbortsBeforeOverflow ==
    (builder = "sbvh" /\ triangle_count >= 1) =>
        /\ "node" \notin oob
        /\ "ref" \notin oob
        /\ \A i \in DOMAIN nodes : i < SBVH_OVERALLOCATION * triangle_count

\* C10: at the entry of every call build_sbvh(first, count) the three ranges
\* hold the same primitives, each at most once, and the range of each axis is
\* in non-decreasing order of that axis's center.
C10_RangesAgreeAndSorted ==
    Returned("enter") =>
        LET R == Top.first .. Top.first + Top.count - 1
        IN  \A d \in Dims :
              /\ \A p \in R : p \in DOMAIN indices[d]
                              /\ indices[d][p] \in 0 .. triangle_count - 1
              /\ {indices[d][p] : p \in R} = {indices[0][p] : p \in R}
              /\ \A p, q \in R : p # q => indices[d][p] # indices[d][q]
              /\ \A p, q \in R : p < q =>
                    triangles[indices[d][p]].center[d]
                        <= triangles[indices[d][q]].center[d]

\* The right child of a spatial split is entered with more than one
\* reference, behind the references its left sibling emitted.
C10_Witness ==
    /\ Returned("enter") /\ Len(stack) >= 2 /\ Top.count >= 2
    /\ stack[Len(stack) - 1].phase = "right"
    /\ split_log[stack[Len(stack) - 1].node].kind = "spatial"

\* C11 as stated: at every interior node of an SBVH the axis in the tag, the
\* top two bits of count less one, is in {0, 1, 2} and is the axis of the
\* split performed there: the object split's axis when the object split won,
\* the spatial split's axis when the spatial split won.
C11_TagIsSplitAxis ==
    builder = "sbvh" =>
        \A i \in DOMAIN split_log :
            /\ nodes[i].count.hi - 1 \in Dims
            /\ nodes[i].count.hi - 1 = split_log[i].dimension

\* A call of build_sbvh at its entry, with more than one reference.
Entered ==
    /\ Returned("enter") /\ Top.count > 1
    /\ ~reads_unwritten(Top.first, Top.count)

\* What the call at the top of the stack is about to do.
decision == build_sbvh_decide(NodeAt(Top.node).aabb, Top.first, Top.count)

\* C12: when the object split wins at a node, the references sent left are
\* exactly those at [first, object_split_index) of the split axis's array,
\* also among references whose center is on the split plane; all three passes
\* send the same references left and the same references right, no assert
\* fails, first + n_left = object_split_index and n_left + n_right = count.
C12_ObjectSplitByPosition ==
    (Entered /\ "split" \in DOMAIN decision /\ decision.log.kind = "object") =>
        LET f   == Top
            obj == partition_object(triangles, indices, f.first, f.count)
            r   == decision.split
            leftset  == {indices[obj.dimension][p] : p \in f.first .. obj.index - 1}
            rightset == {indices[obj.dimension][p] :
                            p \in obj.index .. f.first + f.count - 1}
        IN  /\ decision.kind = "split"
            /\ f.first + r.n_left = obj.index
            /\ r.n_left + r.n_right = f.count
            /\ \A d \in Dims :
                  /\ {r.indices[d][p] : p \in f.first .. f.first + r.n_left - 1}
                        = leftset
                  /\ Len(r.right[d]) = r.n_right
                  /\ {r.right[d][k] : k \in 1 .. r.n_right} = rightset

\* The left child of an object split along x is entered, and a reference that
\* went left has its center on the split plane like one that went right.
C12_Witness ==
    /\ Returned("enter") /\ Len(stack) >= 2
    /\ stack[Len(stack) - 1].phase = "left"
    /\ split_log[stack[Len(stack) - 1].node].kind = "object"
    /\ split_log[stack[Len(stack) - 1].node].dimension = 0
    /\ \E p \in Top.first .. Top.first + Top.count - 1 :
          \E k \in 1 .. Len(stack[Len(stack) - 1].right[0]) :
              triangles[indices[0][p]].center[0]
                  = triangles[stack[Len(stack) - 1].right[0][k]].center[0]

\* C13 as stated: at every interior node the reference counts handed to the
\* left and to the right recursive call are each at least 1 and less than the
\* node's own count, in build_bvh and in build_sbvh, after object splits and
\* after spatial splits, so that every build reaches its leaves.
C13_ChildrenSmaller ==
    /\ \A i \in DOMAIN split_log :
          /\ split_log[i].n_left  >= 1 /\ split_log[i].n_left  < split_log[i].count
          /\ split_log[i].n_right >= 1 /\ split_log[i].n_right < split_log[i].count
    /\ (Entered /\ "split" \in DOMAIN decision) =>
          /\ decision.split.n_left  >= 1 /\ decision.split.n_left  < Top.count
          /\ decision.split.n_right >= 1 /\ decision.split.n_right < Top.count
          /\ decision.kind = "split"

\* The leaves the SAH termination test made: build_bvh hands ranges of fewer
\* than 3 references to the size test.
sah_leaves(ns) == {j \in leaves(ns, 0) : ns[j].count.lo >= 3}

\* The slots that are children of interior nodes of the tree.
child_slots(ns) == UNION {{ns[i].left, ns[i].left + 1} : i \in interiors(ns, 0)}

PlainDone == builder = "bvh" /\ pc = "done"

\* C14 as stated: in the plain builder a leaf made by the SAH termination test
\* does not advance node_index, and after the build every node slot in
\* [2, node_count) is the child of exactly one interior node.
C14_SlotsAreChildren ==
    PlainDone =>
        /\ node_count = 2 + 2 * Cardinality(interiors(nodes, 0))
        /\ \A s \in 2 .. node_count - 1 :
              Cardinality({i \in interiors(nodes, 0) :
                              s \in {nodes[i].left, nodes[i].left + 1}}) = 1

\* C14, amended: the plain builder reserves two child slots for every node of
\* 3 or more references before the SAH termination test; a leaf made by the
\* test keeps its pair, which stays unwritten.  After the build node_count is
\* 2 + 2 * (interior nodes + leaves of the test), every slot in
\* [2, node_count) is the child of at most one interior node, and a slot that
\* is no child is one no statement has written.
C14_SlotsReservedBeforeTest ==
    PlainDone =>
        /\ node_count = 2 + 2 * (Cardinality(interiors(nodes, 0))
                                  + Cardinality(sah_leaves(nodes)))
        /\ child_slots(nodes) \subseteq 2 .. node_count - 1
        /\ \A s \in 2 .. node_count - 1 :
              /\ Cardinality({i \in interiors(nodes, 0) :
                                 s \in {nodes[i].left, nodes[i].left + 1}}) <= 1
              /\ s \notin child_slots(nodes) => nodes[s] = Unwritten
        /\ Cardinality((2 .. node_count - 1) \ child_slots(nodes))
              = 2 * Cardinality(sah_leaves(nodes))

\* A plain build finished with a split root and, below it, a leaf the SAH
\* termination test made.
C14_Witness ==
    /\ PlainDone
    /\ is_interior(nodes[0])
    /\ sah_leaves(nodes) # {}

====
